---- MODULE Spec2Model ----
(***************************************************************************)
(* The Shopkeeper semantic search server (src/fastapi/main.py).            *)
(*                                                                         *)
(* The model covers the process-wide state (products, product_texts,       *)
(* index, model), the startup handler that builds it, the request          *)
(* validation of SearchRequest, and the /health and /search endpoints.     *)
(* A request in the model is one that the transport has delivered to the   *)
(* application: the slowapi limiter and the CORS middleware sit in front   *)
(* of the endpoints and are not modelled.  Handlers are coroutines without *)
(* an await, so each runs to completion on the event loop.                 *)
(*                                                                         *)
(* Text is a sequence of one-character strings, so that lower(), split()   *)
(* and the substring test are computed rather than assumed.  Scores are    *)
(* integers in units of 10^-6; a rounded score is in units of 10^-4.       *)
(* The text encoder is a black box: it is one of a small family of         *)
(* deterministic functions from (query, text) to a score.  search_time_ms  *)
(* is wall-clock time and is left out of the response.                     *)
(***************************************************************************)
EXTENDS Integers, Sequences, FiniteSets, TLC

\* ------------------------------------------------------------------ bounds
MaxCatalog == 5
MaxTopK == 2
NumSeeds == 2

\* ------------------------------------------------------- Python primitives
None == <<>>
Some(x) == <<x>>
IsNone(v) == v = <<>>
Unwrap(v) == v[1]

Get(d, k, default) == IF k \in DOMAIN d THEN d[k] ELSE default

PyIndex(list, i) == IF i < 0 THEN list[Len(list) + i + 1] ELSE list[i + 1]

Min(a, b) == IF a <= b THEN a ELSE b

UpperChars == <<"A","B","C","D","E","F","G","H","I","J","K","L","M",
                "N","O","P","Q","R","S","T","U","V","W","X","Y","Z">>
LowerChars == <<"a","b","c","d","e","f","g","h","i","j","k","l","m",
                "n","o","p","q","r","s","t","u","v","w","x","y","z">>

LowerChar(c) ==
    IF \E i \in 1..Len(UpperChars) : UpperChars[i] = c
    THEN LowerChars[CHOOSE i \in 1..Len(UpperChars) : UpperChars[i] = c]
    ELSE c

lower(s) == [i \in 1..Len(s) |-> LowerChar(s[i])]

IsSpace(c) == c \in {" ", "\t", "\n"}

RECURSIVE SplitAcc(_, _, _)
SplitAcc(s, cur, acc) ==
    IF s = <<>>
    THEN IF cur = <<>> THEN acc ELSE Append(acc, cur)
    ELSE IF IsSpace(Head(s))
         THEN SplitAcc(Tail(s), <<>>, IF cur = <<>> THEN acc ELSE Append(acc, cur))
         ELSE SplitAcc(Tail(s), Append(cur, Head(s)), acc)

split(s) == SplitAcc(s, <<>>, <<>>)

\* Python's `w in t` on two strings
Contains(t, w) ==
    \E i \in 0..(Len(t) - Len(w)) : SubSeq(t, i + 1, i + Len(w)) = w

RECURSIVE join(_, _)
join(sep, parts) ==
    IF parts = <<>> THEN <<>>
    ELSE IF Len(parts) = 1 THEN parts[1]
    ELSE parts[1] \o sep \o join(sep, Tail(parts))

Range(f) == {f[i] : i \in DOMAIN f}

RECURSIVE Flatten(_)
Flatten(ss) == IF ss = <<>> THEN <<>> ELSE Head(ss) \o Flatten(Tail(ss))

\* first-found order without repetitions
RECURSIVE Distinct(_)
Distinct(s) ==
    IF s = <<>> THEN <<>>
    ELSE LET d == Distinct(SubSeq(s, 1, Len(s) - 1)) IN
         IF s[Len(s)] \in Range(d) THEN d ELSE Append(d, s[Len(s)])

\* --------------------------------------------- products_data.json contents
Pool == <<
  [ id |-> 1,
    name |-> <<"R","e","d"," ","D","r","e","s","s">>,
    description |-> <<"s","i","l","k">>,
    price |-> 79,
    category |-> <<"D","r","e","s","s","e","s">>,
    subcategory |-> <<"S","u","m","m","e","r">>,
    gender |-> <<"w">>,
    colors |-> << <<"D","a","r","k"," ","R","e","d">>, <<"R","e","d">> >>,
    sizes |-> << <<"M">> >>,
    tags |-> << <<"d","r","e","s","s">>, <<"S","u","m","m","e","r">>,
                <<"W","e","d">> >>,
    occasions |-> << <<"w","e","d">>, <<"B","e","a","c","h">>,
                     <<"d","a","t","e">> >>,
    seasons |-> << <<"S","u","m","m","e","r">> >>,
    materials |-> << <<"s","i","l","k">> >>,
    rating |-> 4, reviews |-> 12, stock |-> 3 ],
  [ id |-> 2,
    name |-> <<"B","o","o","t","s">>,
    description |-> <<"h","i","k","e">>,
    price |-> 80,
    category |-> <<"S","h","o","e","s">>,
    colors |-> << <<"B","l","a","c","k">> >>,
    tags |-> << <<"b","o","o","t","s">>, <<"l","e","a","t","h","e","r">> >>,
    occasions |-> << <<"h","i","k","e">> >>,
    seasons |-> << <<"W","i","n","t","e","r">> >>,
    rating |-> 5 ],
  [ id |-> 3,
    name |-> <<"C","o","a","t">>,
    description |-> <<"w","o","o","l">>,
    price |-> 201,
    category |-> <<"C","o","a","t","s">>,
    subcategory |-> <<"W","o","o","l">>,
    gender |-> <<"m">>,
    colors |-> << <<"B","l","u","e">>, <<"r","e","d">> >>,
    tags |-> << <<"c","o","a","t">>, <<"w","i","n","t","e","r">> >>,
    seasons |-> << <<"w","i","n","t","e","r">>, <<"f","a","l","l">> >>,
    materials |-> << <<"w","o","o","l">> >>,
    stock |-> 1 ],
  [ id |-> 4,
    name |-> <<"T","e","e">>,
    description |-> <<>>,
    price |-> 49,
    category |-> <<"T","o","p","s">>,
    tags |-> << <<"t","e","e">>, <<"t","e","e">> >>,
    occasions |-> << <<"T","e","e">> >> ]
>>

\* the i-th record of the file: the pool repeated, ids kept unique
FileItem(i) ==
    LET p == Pool[((i - 1) % Len(Pool)) + 1] IN [p EXCEPT !["id"] = i]

CatalogFile(n) == [i \in 1..n |-> FileItem(i)]

\* ----------------------------------------------------------- state
VARIABLES
    hashseed,       \* the interpreter's string-hash seed, fixed per process
    data_len,       \* products_data.json holds the first data_len catalog records
    encoder,        \* which embedding model TextEmbedding(...) loads
    products, product_texts, index, model,   \* the module globals
    startup_pc,     \* position of startup_load_products
    req_pc,         \* "idle" or "pending": a validated request awaits the endpoint
    request,        \* the last request delivered
    response,       \* the last response sent
    locals          \* the endpoint's local variables when it returned

globals == <<products, product_texts, index, model>>
env == <<hashseed, data_len, encoder>>

\* the parsed contents of products_data.json
products_data == CatalogFile(data_len)
vars == <<hashseed, data_len, encoder, products, product_texts, index,
          model, startup_pc, req_pc, request, response, locals>>

\* ------------------------------------------------- set iteration order
\* list(set(xs)) yields the distinct strings in hash-table order.  The order
\* is fixed within a process and differs between processes; it is modelled
\* as the order of a per-process key over the strings a set can hold.
ReasonUniverse ==
    Distinct(Flatten([i \in 1..Len(Pool) |->
        Get(Pool[i], "tags", <<>>) \o Get(Pool[i], "occasions", <<>>)
        \o Get(Pool[i], "seasons", <<>>)
        \o << Get(Pool[i], "category", <<>>), Get(Pool[i], "subcategory", <<>>) >>]))

HashKey(seed, s) ==
    LET j == CHOOSE i \in 1..Len(ReasonUniverse) : ReasonUniverse[i] = s
    IN (j * (6 * seed - 5)) % 23

RECURSIVE SetOrder(_, _)
SetOrder(seed, S) ==
    IF S = {} THEN <<>>
    ELSE LET x == CHOOSE y \in S : \A z \in S : HashKey(seed, y) <= HashKey(seed, z)
         IN <<x>> \o SetOrder(seed, S \ {x})

list_set(xs) == SetOrder(hashseed, Range(xs))

\* ------------------------------------------------------------ build_text
build_text(p) ==
    join(<<" ">>, <<
        Get(p, "name", <<>>),
        Get(p, "description", <<>>),
        Get(p, "category", <<>>),
        Get(p, "subcategory", <<>>),
        Get(p, "gender", <<>>),
        join(<<" ">>, Get(p, "tags", <<>>)),
        join(<<" ">>, Get(p, "occasions", <<>>)),
        join(<<" ">>, Get(p, "seasons", <<>>)),
        join(<<" ">>, Get(p, "materials", <<>>)),
        join(<<" ">>, Get(p, "colors", <<>>)) >>)

\* ------------------------------------------------- compute_match_reasons
\* the strings of xs, in order, that satisfy the test of one loop
RECURSIVE Matching(_, _, _)
Matching(xs, query_words, substring) ==
    IF xs = <<>> THEN <<>>
    ELSE LET x == Head(xs)
             hit == \/ lower(x) \in query_words
                    \/ substring /\ \E w \in query_words : Contains(lower(x), w)
         IN (IF hit THEN <<x>> ELSE <<>>) \o Matching(Tail(xs), query_words, substring)

\* the list `reasons` as it stands before line 102
reasons_list(product, query_lower) ==
    LET query_words == Range(split(query_lower)) IN
      Matching(Get(product, "tags", <<>>), query_words, TRUE)
      \o Matching(Get(product, "occasions", <<>>), query_words, TRUE)
      \o Matching(Get(product, "seasons", <<>>), query_words, FALSE)
      \o (IF lower(Get(product, "category", <<>>)) \in query_words
          THEN <<product["category"]>> ELSE <<>>)
      \o (IF lower(Get(product, "subcategory", <<>>)) \in query_words
          THEN <<product["subcategory"]>> ELSE <<>>)

MaxReasons == 5

\* line 102 without the slice
compute_match_reasons_uncapped(product, query_lower) ==
    list_set(reasons_list(product, query_lower))

compute_match_reasons(product, query_lower) ==
    LET deduped == list_set(reasons_list(product, query_lower))
    IN SubSeq(deduped, 1, Min(MaxReasons, Len(deduped)))

\* ------------------------------------------------------ the text encoder
ScoreTable == <<612340, 598760, 598760, 455550, 120000, -31250>>

\* the embedding models a process may load: an ordinary one, and one that
\* maps every query to the zero vector
Encoders == {"MiniLM", "zero"}

\* model.embed followed by normalisation: the vector of a text, which the
\* model keeps only as far as the inner products below depend on it
Embed(e, text) == [enc |-> e, v |-> Len(text) % Len(ScoreTable)]

\* inner product of two normalised embeddings, the first one a query's
Similarity(query_embedding, vector) ==
    IF query_embedding.enc = "zero" THEN 0
    ELSE ScoreTable[((query_embedding.v + vector.v) % Len(ScoreTable)) + 1]

\* ------------------------------------------------------- request bodies
\* a JSON value: its type, its text when a string, its items when a list
JStr(s) == [t |-> "str", s |-> s, l |-> <<>>]
JNull == [t |-> "null", s |-> <<>>, l |-> <<>>]
JNum == [t |-> "num", s |-> <<>>, l |-> <<>>]
JList(items) == [t |-> "list", s |-> <<>>, l |-> items]
EStr(s) == [t |-> "str", s |-> s]
ENum == [t |-> "num", s |-> <<>>]

red == <<"r","e","d">>
low == <<"l","o","w">>
medium == <<"m","e","d","i","u","m">>
high == <<"h","i","g","h">>

Preferences == <<
    << >>,
    [favorite_colors |-> JList(<<EStr(red)>>)],
    [favorite_colors |-> JList(<<EStr(<<"R","E","D">>), EStr(<<"b","l","u","e">>)>>),
     budget |-> JStr(low)],
    [budget |-> JStr(low)],
    [budget |-> JStr(medium)],
    [budget |-> JStr(high)],
    [favorite_colors |-> JList(<<EStr(red)>>), budget |-> JStr(medium)],
    [favorite_colors |-> JList(<<EStr(red)>>), budget |-> JStr(high)],
    [favorite_colors |-> JList(<<>>), budget |-> JStr(<<"c","h","e","a","p">>),
     size |-> JStr(<<"M">>)],
    [favorite_colors |-> JList(<<EStr(<<"p","i","n","k">>)>>), budget |-> JNull],
    [favorite_colors |-> JNull],
    [favorite_colors |-> JNum, budget |-> JStr(low)],
    [favorite_colors |-> JList(<<EStr(red), ENum>>)],
    [favorite_colors |-> JStr(red), budget |-> JNum]
>>

Queries == <<
    << >>,
    <<" ">>,
    <<"e"," ","s","u","m","m","e","r">>,
    <<"W","i","n","t","e","r"," ","C","O","A","T","S"," ","b","o","o","t">>,
    <<" ","t","e","e"," ">>
>>

\* ----------------------------------------------------------- SearchRequest
QueryMinLength == 1
QueryMaxLength == 500
TopKMin == 1
TopKMax == 20

TopKs == (0..MaxTopK) \cup {TopKMax, TopKMax + 1}

SearchRequest(query, top_k) ==
    /\ Len(query) >= QueryMinLength
    /\ Len(query) <= QueryMaxLength
    /\ top_k >= TopKMin
    /\ top_k <= TopKMax

\* --------------------------------------------------------- index.search
FaissPadScore == -2147483647

RECURSIVE RankPositions(_, _)
RankPositions(sc, S) ==
    IF S = {} THEN <<>>
    ELSE LET best == CHOOSE i \in S : \A j \in S :
                        \/ sc[i] > sc[j]
                        \/ sc[i] = sc[j] /\ i <= j
         IN <<best>> \o RankPositions(sc, S \ {best})

\* IndexFlatIP.search: the k best stored vectors by inner product, best
\* first, equal scores by position; missing neighbours are position -1
IndexSearch(ix, query_embedding, k) ==
    LET n == ix.ntotal
        sc == [i \in 1..n |-> Similarity(query_embedding, ix.vectors[i])]
        ranked == RankPositions(sc, 1..n)
    IN [ indices |-> [i \in 1..k |-> IF i <= n THEN ranked[i] - 1 ELSE -1],
         scores  |-> [i \in 1..k |-> IF i <= n THEN sc[ranked[i]] ELSE FaissPadScore] ]

\* ------------------------------------------------ personalization boosts
ColorBoostAmount == 50000
LowBoostAmount == 50000
MediumBoostAmount == 30000
HighBoostAmount == 20000
LowPriceBelow == 80
MediumPriceFrom == 50
MediumPriceTo == 200
HighPriceAbove == 150

\* line 209: [c.lower() for c in user_prefs.get("favorite_colors", [])]
FavColors(user_prefs) ==
    LET v == Get(user_prefs, "favorite_colors", JList(<<>>)) IN
    IF v.t = "list"
    THEN IF \A i \in 1..Len(v.l) : v.l[i].t = "str"
         THEN [raised |-> FALSE, value |-> [i \in 1..Len(v.l) |-> lower(v.l[i].s)]]
         ELSE [raised |-> TRUE, value |-> <<>>]
    ELSE IF v.t = "str"
         THEN [raised |-> FALSE, value |-> [i \in 1..Len(v.s) |-> lower(<<v.s[i]>>)]]
         ELSE [raised |-> TRUE, value |-> <<>>]

BudgetIs(budget, word) == budget.t = "str" /\ budget.s = word

ColorBoost(fav_colors, product) ==
    IF fav_colors # <<>>
    THEN LET pcs == Get(product, "colors", <<>>)
             product_colors == [i \in 1..Len(pcs) |-> lower(pcs[i])]
         IN IF \E i \in 1..Len(fav_colors) : \E j \in 1..Len(product_colors) :
                   Contains(product_colors[j], fav_colors[i])
            THEN ColorBoostAmount ELSE 0
    ELSE 0

\* the budget rules with the low tier's bound included
BudgetBoostInclusive(budget, price) ==
    IF BudgetIs(budget, low) /\ price <= LowPriceBelow THEN LowBoostAmount
    ELSE IF BudgetIs(budget, medium) /\ MediumPriceFrom <= price /\ price <= MediumPriceTo
         THEN MediumBoostAmount
    ELSE IF BudgetIs(budget, high) /\ price > HighPriceAbove THEN HighBoostAmount
    ELSE 0

BudgetBoost(budget, price) ==
    IF BudgetIs(budget, low) /\ price < LowPriceBelow THEN LowBoostAmount
    ELSE IF BudgetIs(budget, medium) /\ MediumPriceFrom <= price /\ price <= MediumPriceTo
         THEN MediumBoostAmount
    ELSE IF BudgetIs(budget, high) /\ price > HighPriceAbove THEN HighBoostAmount
    ELSE 0

\* round(score, 4): to the nearest 10^-4, halves to the even neighbour
Round4(x) ==
    LET q == x \div 100
        r == x % 100
    IN IF r < 50 THEN q
       ELSE IF r > 50 THEN q + 1
       ELSE IF q % 2 = 0 THEN q ELSE q + 1

\* ------------------------------------------------------------ responses
NoRequest == [endpoint |-> "none", query |-> <<>>, top_k |-> 0, user_preferences |-> <<>>]

Reply(endpoint, status, error, results, query, indexed) ==
    [endpoint |-> endpoint, status |-> status, error |-> error,
     products |-> results, query |-> query, total_results |-> Len(results),
     products_indexed |-> indexed]

NoResponse == Reply("none", 0, "", <<>>, <<>>, 0)

Locals(steps, found, loop) ==
    [steps |-> steps, indices |-> found.indices, scores |-> found.scores, loop |-> loop]

NoFound == [indices |-> <<>>, scores |-> <<>>]
NoLocals == Locals({}, NoFound, <<>>)

\* ------------------------------------------------------- search_products
\* the check of line 190 without its index half
IndexReadyModelOnly(ix, m) == ~ IsNone(m)

\* line 190, negated
IndexReady(ix, m) == ~ (IsNone(ix) \/ IsNone(m))

\* line 213 without its lower bound: a negative position counts from the end
SkipTooLarge(idx, prods) == idx >= Len(prods)

\* line 213 with its lower bound off by one
SkipThroughZero(idx, prods) == idx <= 0 \/ idx >= Len(prods)

\* line 213
Skip(idx, prods) == idx < 0 \/ idx >= Len(prods)

ProductResult(product, score, match_reasons) ==
    [ id |-> product["id"],
      name |-> product["name"],
      description |-> product["description"],
      price |-> product["price"],
      category |-> product["category"],
      subcategory |-> IF "subcategory" \in DOMAIN product
                      THEN Some(product["subcategory"]) ELSE None,
      gender |-> IF "gender" \in DOMAIN product THEN Some(product["gender"]) ELSE None,
      colors |-> Get(product, "colors", <<>>),
      sizes |-> Get(product, "sizes", <<>>),
      tags |-> Get(product, "tags", <<>>),
      occasions |-> Get(product, "occasions", <<>>),
      seasons |-> Get(product, "seasons", <<>>),
      rating |-> Get(product, "rating", 0),
      reviews |-> Get(product, "reviews", 0),
      stock |-> Get(product, "stock", 0),
      similarity_score |-> Round4(score),
      match_reasons |-> match_reasons ]

\* the value of `score` at line 254
Boosted(product, base, fav_colors, budget) ==
    base + ColorBoost(fav_colors, product)
         + BudgetBoost(budget, Get(product, "price", 0))

\* one pass of the loop of lines 212-256: nothing when the position is skipped
LoopStep(prods, found, i, fav_colors, budget, query) ==
    LET idx == found.indices[i] IN
    IF Skip(idx, prods) THEN <<>>
    ELSE LET product == PyIndex(prods, idx)
             score == Boosted(product, found.scores[i], fav_colors, budget)
         IN << [ idx |-> idx, base |-> found.scores[i], score |-> score,
                 result |-> ProductResult(product, score,
                              compute_match_reasons(product, lower(query))) ] >>

\* the list left in retrieval order
NoSort(results) == results

\* results.sort(key=similarity_score, reverse=True): stable, largest first
RECURSIVE SortBySimilarity(_)
SortBySimilarity(results) ==
    IF results = <<>> THEN <<>>
    ELSE LET n == Len(results)
             x == results[n]
             front == SortBySimilarity(SubSeq(results, 1, n - 1))
             m == Cardinality({i \in 1..Len(front) :
                                 front[i].similarity_score >= x.similarity_score})
         IN SubSeq(front, 1, m) \o <<x>> \o SubSeq(front, m + 1, Len(front))

\* the body of search_products over the given globals: the response, and
\* the endpoint's locals on return
Search(prods, ix, m, query, top_k, user_prefs) ==
    IF ~ IndexReady(ix, m)
    THEN [response |-> Reply("search", 503, "Index not ready", <<>>, <<>>, 0),
          locals |-> NoLocals]
    ELSE
    LET query_embedding == Embed(Unwrap(m), query) IN
    IF IsNone(ix)   \* index.search on None raises AttributeError
    THEN [response |-> Reply("search", 500, "Internal Server Error", <<>>, <<>>, 0),
          locals |-> Locals({"encode"}, NoFound, <<>>)]
    ELSE
    LET found == IndexSearch(Unwrap(ix), query_embedding, top_k)
        fav == FavColors(user_prefs)
        budget == Get(user_prefs, "budget", JStr(<<>>))
    IN
    IF fav.raised   \* TypeError or AttributeError at line 209
    THEN [response |-> Reply("search", 500, "Internal Server Error", <<>>, <<>>, 0),
          locals |-> Locals({"encode", "search"}, found, <<>>)]
    ELSE
    LET loop == Flatten([i \in 1..top_k |->
                           LoopStep(prods, found, i, fav.value, budget, query)])
        results == SortBySimilarity([i \in 1..Len(loop) |-> loop[i].result])
    IN [response |-> Reply("search", 200, "", results, query, 0),
        locals |-> Locals({"encode", "search", "boost", "sort"}, found,
                          [i \in 1..Len(loop) |->
                             [idx |-> loop[i].idx, base |-> loop[i].base,
                              score |-> loop[i].score]])]

\* --------------------------------------------------------------- actions
Init ==
    /\ hashseed \in 1..NumSeeds
    /\ data_len \in 0..MaxCatalog
    /\ encoder \in Encoders
    /\ products = <<>>
    /\ product_texts = <<>>
    /\ index = None
    /\ model = None
    /\ startup_pc = "not_started"
    /\ req_pc = "idle"
    /\ request = NoRequest
    /\ response = NoResponse
    /\ locals = NoLocals

reqvars == <<req_pc, request, response, locals>>

\* no request has been delivered and none is being served
Quiet == req_pc = "idle" /\ request.endpoint = "none"

\* lines 112-114: products = json.load(f).  The startup event comes before
\* the first request, or (an application run without its lifespan) never.
StartupLoad ==
    /\ startup_pc = "not_started"
    /\ Quiet
    /\ products' = products_data
    /\ startup_pc' = "loaded"
    /\ UNCHANGED <<env, product_texts, index, model, reqvars>>

\* lines 113-114 raise: the file is missing or is not JSON
StartupLoadFails ==
    /\ startup_pc = "not_started"
    /\ Quiet
    /\ startup_pc' = "failed"
    /\ UNCHANGED <<env, globals, reqvars>>

\* line 119
StartupTexts ==
    /\ startup_pc = "loaded"
    /\ product_texts' = [i \in 1..Len(products) |-> build_text(products[i])]
    /\ startup_pc' = "texts"
    /\ UNCHANGED <<env, products, index, model, reqvars>>

\* line 123
StartupModel ==
    /\ startup_pc = "texts"
    /\ model' = Some(encoder)
    /\ startup_pc' = "model"
    /\ UNCHANGED <<env, products, product_texts, index, reqvars>>

\* line 123 raises: the model cannot be loaded
StartupModelFails ==
    /\ startup_pc = "texts"
    /\ startup_pc' = "failed"
    /\ UNCHANGED <<env, globals, reqvars>>

\* lines 126-135: embed, normalise, create the empty index
StartupCreateIndex ==
    /\ startup_pc = "model"
    /\ Len(product_texts) > 0
    /\ index' = Some([ntotal |-> 0, vectors |-> <<>>])
    /\ startup_pc' = "created"
    /\ UNCHANGED <<env, products, product_texts, model, reqvars>>

\* line 129 raises on an empty catalog: the embeddings array has one axis
StartupEmbedFails ==
    /\ startup_pc = "model"
    /\ Len(product_texts) = 0
    /\ startup_pc' = "failed"
    /\ UNCHANGED <<env, globals, reqvars>>

\* line 136: index.add(embeddings)
StartupAdd ==
    /\ startup_pc = "created"
    /\ index' = Some([ntotal |-> Len(product_texts),
                      vectors |-> [i \in 1..Len(product_texts) |->
                                     Embed(Unwrap(model), product_texts[i])]])
    /\ startup_pc' = "done"
    /\ UNCHANGED <<env, products, product_texts, model, reqvars>>

startup_load_products ==
    \/ StartupLoad \/ StartupLoadFails \/ StartupTexts \/ StartupModel
    \/ StartupModelFails \/ StartupCreateIndex \/ StartupEmbedFails \/ StartupAdd

\* startup_load_products has no await: no endpoint runs while it is under way
CanServe == startup_pc \in {"not_started", "done", "failed"}

\* GET /health
health ==
    /\ CanServe
    /\ Quiet
    /\ request' = [NoRequest EXCEPT !.endpoint = "health"]
    /\ response' = Reply("health", 200, "", <<>>, <<>>, Len(products))
    /\ locals' = NoLocals
    /\ UNCHANGED <<env, globals, startup_pc, req_pc>>

\* POST /search arrives: the body is validated against SearchRequest
post_search(query, top_k, user_prefs) ==
    /\ CanServe
    /\ Quiet
    /\ request' = [endpoint |-> "search", query |-> query, top_k |-> top_k,
                   user_preferences |-> user_prefs]
    /\ locals' = NoLocals
    /\ IF SearchRequest(query, top_k)
       THEN /\ req_pc' = "pending"
            /\ response' = NoResponse
       ELSE /\ req_pc' = "idle"
            /\ response' = Reply("search", 422, "validation error", <<>>, <<>>, 0)
    /\ UNCHANGED <<env, globals, startup_pc>>

\* the endpoint reordering the shared catalog list in place
SearchGlobalsReversed ==
    /\ products' = [i \in 1..Len(products) |-> products[Len(products) + 1 - i]]
    /\ UNCHANGED <<product_texts, index, model>>

\* the endpoint leaves the module globals alone
SearchGlobals == UNCHANGED globals

\* the endpoint runs on the validated request
search_products ==
    /\ req_pc = "pending"
    /\ LET out == Search(products, index, model, request.query, request.top_k,
                         request.user_preferences)
       IN /\ response' = out.response
          /\ locals' = out.locals
    /\ req_pc' = "idle"
    /\ SearchGlobals
    /\ UNCHANGED <<env, startup_pc, request>>

\* the response is written out; the request and the endpoint's locals are gone
send_response ==
    /\ req_pc = "idle"
    /\ response.endpoint # "none"
    /\ request' = NoRequest
    /\ response' = NoResponse
    /\ locals' = NoLocals
    /\ UNCHANGED <<env, globals, startup_pc, req_pc>>

Next ==
    \/ startup_load_products
    \/ health
    \/ \E qi \in 1..Len(Queries), k \in TopKs, pi \in 1..Len(Preferences) :
          post_search(Queries[qi], k, Preferences[pi])
    \/ search_products
    \/ send_response

Spec == Init /\ [][Next]_vars

\* ================================================================ claims
Served == response.endpoint = "search"
Succeeded == Served /\ response.status = 200

\* the catalog item a result was built from
ItemOf(r) == products[CHOOSE i \in 1..Len(products) : products[i]["id"] = r.id]

ResultIds(resp) == {resp.products[i].id : i \in 1..Len(resp.products)}

\* C1: the products of every successful search response are in
\* non-increasing order of similarity_score.
C1_SortedByBoostedScore ==
    Succeeded =>
        \A i \in 1..(Len(response.products) - 1) :
            response.products[i].similarity_score
                >= response.products[i + 1].similarity_score

\* a successful response whose order differs from the retrieval order
C1_Witness ==
    /\ Succeeded
    /\ \E i \in 1..Len(response.products) :
          response.products[i].id # PyIndex(products, locals.loop[i].idx)["id"]

\* C2: the items of a successful response are exactly the valid catalog
\* positions the index search returns for (query, top_k), and they are the
\* items returned for the same query and top_k with no preferences at all,
\* hence the same for every user_preferences value that is served.
C2_BoostAfterRetrieval ==
    Succeeded =>
        LET found == IndexSearch(Unwrap(index), Embed(Unwrap(model), request.query),
                                 request.top_k)
            valid == {found.indices[i] : i \in 1..request.top_k}
                        \cap (0..(Len(products) - 1))
        IN /\ ResultIds(response) = {products[idx + 1]["id"] : idx \in valid}
           /\ Len(response.products) = Cardinality(valid)
           /\ LET plain == Search(products, index, model, request.query,
                                   request.top_k, << >>).response
              IN plain.status = 200 /\ ResultIds(plain) = ResultIds(response)

\* an item left out of the top-k whose boosted score would beat a returned one
C2_Witness ==
    /\ Succeeded
    /\ \E pos \in 1..Len(products) :
          /\ products[pos]["id"] \notin ResultIds(response)
          /\ \E i \in 1..Len(locals.loop) :
                Boosted(products[pos],
                        Similarity(Embed(Unwrap(model), request.query),
                                   Unwrap(index).vectors[pos]),
                        FavColors(request.user_preferences).value,
                        Get(request.user_preferences, "budget", JStr(<<>>)))
                  > locals.loop[i].score

\* C3: a search served while startup has not completed gets 503 and runs
\* neither the encoder nor the index search; a search that passes the ready
\* check finds an index holding exactly one vector per catalog item.
C3_NotReadyOrFullIndex ==
    (Served /\ response.status # 422) =>
        /\ startup_pc # "done" =>
              /\ response.status = 503
              /\ locals.steps = {}
        /\ response.status # 503 =>
              /\ ~ IsNone(index)
              /\ Unwrap(index).ntotal = Len(products)
              /\ Len(Unwrap(index).vectors) = Len(products)
              /\ Len(products) > 0

\* a search refused after the model was loaded but before an index existed
C3_Witness ==
    /\ Served
    /\ response.status = 503
    /\ ~ IsNone(model)
    /\ IsNone(index)

\* C4: a query that is empty or only spaces is rejected with 422 and never
\* reaches the encoder or the index search.
C4_BlankQueryRejected ==
    (Served /\ startup_pc = "done"
            /\ \A i \in 1..Len(request.query) : request.query[i] = " ") =>
        /\ response.status = 422
        /\ locals.steps = {}

\* C5: a search with missing or malformed preference values completes
\* successfully, and a malformed favorite_colors or budget adds no boost.
C5_MalformedPreferencesIgnored ==
    (Served /\ startup_pc = "done" /\ response.status # 422) =>
        LET prefs == request.user_preferences
            fc == Get(prefs, "favorite_colors", JList(<<>>))
            good_colors == fc.t = "list" /\ \A i \in 1..Len(fc.l) : fc.l[i].t = "str"
            bd == Get(prefs, "budget", JStr(<<>>))
            good_budget == bd.t = "str" /\ bd.s \in {low, medium, high}
        IN /\ response.status = 200
           /\ \A i \in 1..Len(locals.loop) :
                 LET product == PyIndex(products, locals.loop[i].idx)
                     boost == locals.loop[i].score - locals.loop[i].base
                     budget_part == BudgetBoost(bd, Get(product, "price", 0))
                 IN /\ ~ good_colors => boost = (IF good_budget THEN budget_part ELSE 0)
                    /\ ~ good_budget => boost \in {0, ColorBoostAmount}

\* C6: with preferences restricted to the recognized keys and shapes, the
\* boost of every candidate is in {0, .02, .03, .05, .07, .08, .10}: .05 once
\* when some favourite color is, ignoring case, part of some item color, plus
\* the budget part (low and price < 80: .05; medium and 50 <= price <= 200:
\* .03; high and price > 150: .02; otherwise 0).
C6_BoostValues ==
    LET prefs == request.user_preferences
        fc == Get(prefs, "favorite_colors", JList(<<>>))
        bd == Get(prefs, "budget", JStr(<<>>))
        recognized ==
            /\ DOMAIN prefs \subseteq {"favorite_colors", "budget"}
            /\ fc.t = "list" /\ \A i \in 1..Len(fc.l) : fc.l[i].t = "str"
            /\ "budget" \in DOMAIN prefs => bd.t = "str" /\ bd.s \in {low, medium, high}
    IN (Succeeded /\ recognized) =>
        \A i \in 1..Len(locals.loop) :
            LET item == PyIndex(products, locals.loop[i].idx)
                price == item["price"]
                colors == Get(item, "colors", <<>>)
                boost == locals.loop[i].score - locals.loop[i].base
                color_part ==
                    IF \E f \in 1..Len(fc.l), c \in 1..Len(colors) :
                          Contains(lower(colors[c]), lower(fc.l[f].s))
                    THEN 50000 ELSE 0
                budget_part ==
                    IF bd.s = low /\ price < 80 THEN 50000
                    ELSE IF bd.s = medium /\ 50 <= price /\ price <= 200 THEN 30000
                    ELSE IF bd.s = high /\ price > 150 THEN 20000
                    ELSE 0
            IN /\ boost \in {0, 20000, 30000, 50000, 70000, 80000, 100000}
               /\ boost = color_part + budget_part

\* two favourite colors, two matching item colors and the low tier: .10 once
C6_Witness ==
    /\ Succeeded
    /\ Len(Get(request.user_preferences, "favorite_colors", JList(<<>>)).l) = 2
    /\ \E i \in 1..Len(locals.loop) :
          /\ locals.loop[i].score - locals.loop[i].base = 100000
          /\ Len(PyIndex(products, locals.loop[i].idx)["colors"]) = 2

\* C7: the match reasons of every result are at most 5, hold no string
\* twice, and each is verbatim one of the item's tags, occasions, seasons,
\* category or subcategory.
C7_ReasonsCappedDistinctVerbatim ==
    Succeeded =>
        \A n \in 1..Len(response.products) :
            LET r == response.products[n]
                item == ItemOf(r)
                own == Range(Get(item, "tags", <<>>)) \cup Range(Get(item, "occasions", <<>>))
                       \cup Range(Get(item, "seasons", <<>>)) \cup {item["category"]}
                       \cup (IF "subcategory" \in DOMAIN item
                             THEN {item["subcategory"]} ELSE {})
            IN /\ Len(r.match_reasons) <= 5
               /\ \A i, j \in 1..Len(r.match_reasons) :
                     r.match_reasons[i] = r.match_reasons[j] => i = j
               /\ Range(r.match_reasons) \subseteq own

\* an item with a repeated reason and more than five distinct ones
C7_Witness ==
    /\ Succeeded
    /\ \E n \in 1..Len(response.products) :
          LET raw == reasons_list(ItemOf(response.products[n]), lower(request.query))
          IN /\ Cardinality(Range(raw)) > 5
             /\ Len(raw) > Cardinality(Range(raw))
             /\ Len(response.products[n].match_reasons) = 5

\* C8: a successful search returns min(top_k, N) results, each a different
\* catalog item (all N of them when top_k >= N), with total_results the
\* length of the list; and a ready search fails only in reading the
\* preferences, never because top_k exceeds N.
C8_MinTopKCatalog ==
    (Served /\ startup_pc = "done" /\ response.status # 422) =>
        /\ response.status \in {200, 500}
        /\ response.status = 500 => FavColors(request.user_preferences).raised
        /\ response.status = 200 =>
              /\ Len(response.products) = Min(request.top_k, Len(products))
              /\ Cardinality(ResultIds(response)) = Len(response.products)
              /\ response.total_results = Len(response.products)
              /\ request.top_k >= Len(products) =>
                    ResultIds(response) = {products[i]["id"] : i \in 1..Len(products)}

\* top_k = 20 against a catalog of 5
C8_Witness ==
    /\ Succeeded
    /\ request.top_k = 20
    /\ Len(products) = 5
    /\ Len(response.products) = 5
    /\ response.total_results = 5

C10_FirstFoundOrder ==
    Succeeded =>
        \A n \in 1..Len(response.products) :
            LET first == Distinct(reasons_list(ItemOf(response.products[n]),
                                               lower(request.query)))
            IN response.products[n].match_reasons
                 = SubSeq(first, 1, Min(5, Len(first)))

====
